---- MODULE Spec2Model ----
(***************************************************************************)
(* Model of the odds monitors of python_bet.                               *)
(*                                                                         *)
(*   src/bet_brasil.py   BrasilOddsMonitor: per match, the bookmaker       *)
(*                       entries are turned into casa_info records, the    *)
(*                       best odds are aggregated and analysed for value.  *)
(*   src/code_no_api.py  BetMonitor: a polling loop that appends one       *)
(*                       snapshot per successful poll and compares the     *)
(*                       last two snapshots.                               *)
(*                                                                         *)
(* Numbers.  A decimal price is held as an integer number of tenths        *)
(* (2.0 is 20, 0.5 is 5).  Everything the code derives from prices by      *)
(* division (1/odd, the sum, the adjusted probability, the margin) is an   *)
(* exact fraction <<numerator, denominator>> in lowest terms with a        *)
(* positive denominator.  Python computes the same quantities in binary    *)
(* floating point; the model is the exact-arithmetic reading of that code  *)
(* and does not represent rounding errors of the order of 1e-16.           *)
(*                                                                         *)
(* Python's None is the empty tuple and a present value v is <<v>>, so     *)
(* that dict.get and the truth test of a value keep their meaning.         *)
(***************************************************************************)
EXTENDS Integers, Sequences, FiniteSets, TLC

VARIABLES
    casas_apostas,   \* bet_brasil: info_jogo['casas_apostas']
    melhores_odds,   \* bet_brasil: info_jogo['melhores_odds']
    analise_valor,   \* bet_brasil: info_jogo['analise_valor']
    pc_jogo,         \* bet_brasil: position inside _processar_jogos_brasileiros
    odds_history,    \* code_no_api: self.odds_history
    iteration,       \* code_no_api: monitor_odds' iteration
    max_iterations,  \* code_no_api: monitor_odds' max_iterations argument
    pc_monitor,      \* code_no_api: position of monitor_odds
    exibido,         \* code_no_api: what display_current_odds printed in the last cycle
    tendencia,       \* code_no_api: what analyze_trend printed in the last cycle
    polls,           \* history variable: the outcome of every polling cycle, in order
    odds_history_brasil, \* bet_brasil: self.odds_history
    iteracao,        \* bet_brasil: the number of cycles monitorar_campeonato_brasileiro began
    iteracoes,       \* bet_brasil: monitorar_campeonato_brasileiro's iteracoes argument
    pc_brasil,       \* bet_brasil: position of monitorar_campeonato_brasileiro
    exibido_brasil,  \* bet_brasil: what exibir_jogos_brasileiros printed in the last cycle
    arquivo,         \* bet_brasil: the rows of the last CSV file written, or None
    polls_brasil     \* history variable: what obter_jogos_ao_vivo returned in every cycle

vars_jogo == <<casas_apostas, melhores_odds, analise_valor, pc_jogo>>

vars_monitor ==
    <<odds_history, iteration, max_iterations, pc_monitor, exibido, tendencia, polls>>

vars_brasil ==
    <<odds_history_brasil, iteracao, iteracoes, pc_brasil, exibido_brasil, arquivo,
      polls_brasil>>

vars == <<vars_jogo, vars_monitor, vars_brasil>>

(***************************************************************************)
(* Python values                                                           *)
(***************************************************************************)
None == <<>>

Some(v) == <<v>>

Val(o) == o[1]

\* bool(x) of a number-or-None: None and 0 are false.
Truthy(o) == o # None /\ Val(o) # 0

\* dict.get(k): a dict is a function whose domain is its key set.
Get(d, k) == IF k \in DOMAIN d THEN Some(d[k]) ELSE None

\* d[k] = v
Put(d, k, v) == [x \in (DOMAIN d) \cup {k} |-> IF x = k THEN v ELSE d[x]]

EmptyDict == <<>>

(***************************************************************************)
(* Exact fractions                                                         *)
(***************************************************************************)
Abs(n) == IF n < 0 THEN -n ELSE n

RECURSIVE GCD(_, _)
GCD(a, b) == IF b = 0 THEN a ELSE GCD(b, a % b)

\* n/d in lowest terms, d > 0 required.
Frac(n, d) ==
    LET g == GCD(Abs(n), d)
    IN  IF g = 0 THEN <<0, 1>> ELSE <<n \div g, d \div g>>

RAdd(a, b) == Frac(a[1] * b[2] + b[1] * a[2], a[2] * b[2])

RSub(a, b) == Frac(a[1] * b[2] - b[1] * a[2], a[2] * b[2])

RMul(a, b) == Frac(a[1] * b[1], a[2] * b[2])

\* a / b for b > 0
RDiv(a, b) == Frac(a[1] * b[2], a[2] * b[1])

RGt(a, b) == a[1] * b[2] > b[1] * a[2]

RGe(a, b) == a[1] * b[2] >= b[1] * a[2]

RECURSIVE RSum(_)
RSum(s) == IF s = <<>> THEN <<0, 1>> ELSE RAdd(Head(s), RSum(Tail(s)))

(***************************************************************************)
(* bet_brasil.py: the bookmaker entries a match can carry                  *)
(*                                                                         *)
(* A bookmaker entry of the odds feed has a title and a list of markets;   *)
(* a market has a key and a list of outcomes {name, price}.  The entries   *)
(* below quote the result market under the names home/draw/away and the    *)
(* totals market under 'Over 2.5'/'Under 2.5', the names that              *)
(* _calcular_melhores_odds looks up.  Prices are tenths: 5 is 0.5 and      *)
(* 10 is 1.0 (not legal decimal odds), the others are legal odds.  The     *)
(* bookmakers of one match have distinct titles.                           *)
(***************************************************************************)
MaxCasas == 2

Nomes == {"BookA", "BookB", "draw"}

PrecosHome == {None, Some(20)}

PrecosDraw == {None, Some(20), Some(30)}

PrecosAway == {None, Some(5), Some(30)}

PrecosOver == {None, Some(18), Some(20)}

PrecosUnder == {None, Some(10)}

\* The outcomes list of a market: the quoted names, in the order of keys.
Outcomes(keys, quote) ==
    LET todos == [i \in 1..Len(keys) |-> <<keys[i], quote[i]>>]
        cotados == SelectSeq(todos, LAMBDA o : o[2] # None)
    IN  [i \in 1..Len(cotados) |-> [name |-> cotados[i][1], price |-> Val(cotados[i][2])]]

H2H(h, d, a) == [key |-> "h2h", outcomes |-> Outcomes(<<"home", "draw", "away">>, <<h, d, a>>)]

Totals(o, u) == [key |-> "totals", outcomes |-> Outcomes(<<"Over 2.5", "Under 2.5">>, <<o, u>>)]

Bookmaker(n, markets) == [title |-> n, markets |-> markets]

BookmakersPossiveis ==
         {Bookmaker(n, <<>>) : n \in Nomes}
    \cup {Bookmaker(n, <<H2H(h, d, a)>>) :
              n \in Nomes, h \in PrecosHome, d \in PrecosDraw, a \in PrecosAway}
    \cup {Bookmaker(n, <<Totals(o, u)>>) :
              n \in Nomes, o \in PrecosOver, u \in PrecosUnder}
    \cup {Bookmaker(n, <<H2H(Some(20), Some(30), Some(30)), Totals(o, Some(10))>>) :
              n \in Nomes, o \in PrecosOver}

(***************************************************************************)
(* bet_brasil.py: _processar_jogos_brasileiros, one bookmaker              *)
(***************************************************************************)
\* resultados[resultado['name']] = resultado['price'] for each outcome:
\* a later outcome of the same name overwrites an earlier one.
RECURSIVE DictDeOutcomes(_, _)
DictDeOutcomes(outcomes, d) ==
    IF outcomes = <<>> THEN d
    ELSE DictDeOutcomes(Tail(outcomes),
                        Put(d, Head(outcomes).name, Head(outcomes).price))

RECURSIVE ProcessarMercados(_, _)
ProcessarMercados(markets, mercados) ==
    IF markets = <<>> THEN mercados
    ELSE LET mercado == Head(markets)
             novo == IF mercado.key = "h2h"
                     THEN Put(mercados, "resultado",
                              DictDeOutcomes(mercado.outcomes, EmptyDict))
                     ELSE IF mercado.key = "totals"
                     THEN Put(mercados, "over_under",
                              DictDeOutcomes(mercado.outcomes, EmptyDict))
                     ELSE mercados
         IN  ProcessarMercados(Tail(markets), novo)

CasaInfo(casa) ==
    [nome |-> casa.title, mercados |-> ProcessarMercados(casa.markets, EmptyDict)]

(***************************************************************************)
(* bet_brasil.py: _calcular_melhores_odds                                  *)
(***************************************************************************)
MelhoresIniciais ==
    [casa     |-> [odd |-> 0, casa_aposta |-> ""],
     empate   |-> [odd |-> 0, casa_aposta |-> ""],
     fora     |-> [odd |-> 0, casa_aposta |-> ""],
     over_25  |-> [odd |-> 0, casa_aposta |-> ""],
     under_25 |-> [odd |-> 0, casa_aposta |-> ""]]

\* casa['mercados'].get(chave, {})
MercadoDe(casa, chave) ==
    IF chave \in DOMAIN casa.mercados THEN casa.mercados[chave] ELSE EmptyDict

\* casa['nome'] == 'home' and 'home_team' or casa['nome'] == 'away' and
\* 'away_team' or casa['nome']: the key whose presence in resultado lets
\* the home price be considered.
ChaveCasa(nome) ==
    IF nome = "home" THEN "home_team"
    ELSE IF nome = "away" THEN "away_team"
    ELSE nome

\* odd > melhores[...]['odd']
Supera(odd, atual) == odd > atual

\* if odd_casa and odd_casa > melhores['casa']['odd'], under the name test
AtualizarCasa(melhores, casa) ==
    LET resultado == MercadoDe(casa, "resultado")
    IN  IF Truthy(Get(resultado, ChaveCasa(casa.nome)))
        THEN LET odd_casa == Get(resultado, "home")
             IN  IF Truthy(odd_casa) /\ Supera(Val(odd_casa), melhores.casa.odd)
                 THEN [melhores EXCEPT
                          !.casa = [odd |-> Val(odd_casa), casa_aposta |-> casa.nome]]
                 ELSE melhores
        ELSE melhores

\* if d.get(chave): odd = d[chave]; if odd > melhores[campo]['odd']: ...
Atualizar(melhores, campo, d, chave, nome) ==
    IF Truthy(Get(d, chave))
    THEN IF Supera(d[chave], melhores[campo].odd)
         THEN [melhores EXCEPT ![campo] = [odd |-> d[chave], casa_aposta |-> nome]]
         ELSE melhores
    ELSE melhores

\* As MelhoresAposCasa, with the Under 2.5 update reading the Over 2.5 key.
MelhoresAposCasaChaveTrocada(melhores, casa) ==
    LET resultado == MercadoDe(casa, "resultado")
        over_under == MercadoDe(casa, "over_under")
        m1 == AtualizarCasa(melhores, casa)
        m2 == Atualizar(m1, "fora", resultado, "away", casa.nome)
        m3 == Atualizar(m2, "empate", resultado, "draw", casa.nome)
        m4 == Atualizar(m3, "over_25", over_under, "Over 2.5", casa.nome)
    IN  Atualizar(m4, "under_25", over_under, "Over 2.5", casa.nome)

\* the body of "for casa in casas_apostas"
MelhoresAposCasa(melhores, casa) ==
    LET resultado == MercadoDe(casa, "resultado")
        over_under == MercadoDe(casa, "over_under")
        m1 == AtualizarCasa(melhores, casa)
        m2 == Atualizar(m1, "fora", resultado, "away", casa.nome)
        m3 == Atualizar(m2, "empate", resultado, "draw", casa.nome)
        m4 == Atualizar(m3, "over_25", over_under, "Over 2.5", casa.nome)
    IN  Atualizar(m4, "under_25", over_under, "Under 2.5", casa.nome)

RECURSIVE MelhoresDesde(_, _)
MelhoresDesde(melhores, casas) ==
    IF casas = <<>> THEN melhores
    ELSE MelhoresDesde(MelhoresAposCasa(melhores, Head(casas)), Tail(casas))

_calcular_melhores_odds(casas) == MelhoresDesde(MelhoresIniciais, casas)

(***************************************************************************)
(* bet_brasil.py: _analisar_valor_odds                                     *)
(***************************************************************************)
Mercados == <<"casa", "empate", "fora">>

NomeMercado(mercado) ==
    IF mercado = "casa" THEN "Vitoria Casa"
    ELSE IF mercado = "empate" THEN "Empate"
    ELSE "Vitoria Fora"

\* As OddValida, with >= for >.
OddNaoNegativa(odd) == odd >= 0

\* melhores_odds[mercado]['odd'] > 0
OddValida(odd) == odd > 0

\* 1 / odd, for an odd held in tenths
Inverso(odd) == Frac(10, odd)

\* odds_validas: 1/odd of the priced outcomes, in the order casa, empate, fora
RECURSIVE OddsValidas(_, _)
OddsValidas(melhores, mercados) ==
    IF mercados = <<>> THEN <<>>
    ELSE LET odd == melhores[Head(mercados)].odd
             resto == OddsValidas(melhores, Tail(mercados))
         IN  IF OddValida(odd) THEN <<Inverso(odd)>> \o resto ELSE resto

\* (sum(odds_validas) - 1) * 100
Margem(odds_validas) == RMul(RSub(RSum(odds_validas), <<1, 1>>), <<100, 1>>)

\* As ProbAjustada, without the division by the sum.
ProbImplicita(odd, odds_validas) == Inverso(odd)

\* prob_implicita / sum(odds_validas)
ProbAjustada(odd, odds_validas) == RDiv(Inverso(odd), RSum(odds_validas))

\* As EhValueBet, with the threshold 0.4.
EhValueBetLimiar04(prob_ajustada) == RGt(prob_ajustada, <<4, 10>>)

\* As EhValueBet, with >= for >.
EhValueBetInclusive(prob_ajustada) == RGe(prob_ajustada, <<6, 10>>)

\* As EhValueBet, with the threshold 0.06.
EhValueBetLimiarBaixo(prob_ajustada) == RGt(prob_ajustada, <<6, 100>>)

\* prob_ajustada > 0.6
EhValueBet(prob_ajustada) == RGt(prob_ajustada, <<6, 10>>)

\* f"{prob_ajustada:.1%}": the probability in tenths of a percent, rounded
\* to the nearest (a tie goes to the even neighbour).
Formatar(prob) ==
    LET n == 1000 * prob[1]
        q == n \div prob[2]
        r == n % prob[2]
    IN  IF 2 * r > prob[2] THEN q + 1
        ELSE IF 2 * r < prob[2] THEN q
        ELSE IF q % 2 = 0 THEN q ELSE q + 1

\* the second loop over ['casa', 'empate', 'fora']: the entries appended
RECURSIVE ValueBets(_, _, _)
ValueBets(melhores, mercados, odds_validas) ==
    IF mercados = <<>> THEN <<>>
    ELSE LET mercado == Head(mercados)
             odd == melhores[mercado].odd
             resto == ValueBets(melhores, Tail(mercados), odds_validas)
         IN  IF OddValida(odd) /\ EhValueBet(ProbAjustada(odd, odds_validas))
             THEN <<[mercado       |-> NomeMercado(mercado),
                     odd           |-> odd,
                     probabilidade |-> Formatar(ProbAjustada(odd, odds_validas)),
                     casa_aposta   |-> melhores[mercado].casa_aposta]>> \o resto
             ELSE resto

\* A division by zero: 1 / odd with odd = 0 in either loop, or a zero sum
\* under a priced outcome.
LevantaZeroDivisionError(melhores) ==
    \/ \E i \in 1..Len(Mercados) :
          OddValida(melhores[Mercados[i]].odd) /\ melhores[Mercados[i]].odd = 0
    \/ /\ \A i \in 1..Len(Mercados) : melhores[Mercados[i]].odd # 0
       /\ OddsValidas(melhores, Mercados) # <<>>
       /\ RSum(OddsValidas(melhores, Mercados))[1] = 0

Recomendacao(value_bets) ==
    IF value_bets # <<>>
    THEN <<Len(value_bets), "VALUE BET(S) IDENTIFICADO(S)">>
    ELSE <<0, "Aguardando melhores oportunidades">>

_analisar_valor_odds(melhores) ==
    LET odds_validas == OddsValidas(melhores, Mercados)
        value_bets == IF odds_validas # <<>>
                      THEN ValueBets(melhores, Mercados, odds_validas)
                      ELSE <<>>
    IN  [value_bets     |-> value_bets,
         margem_mercado |-> IF odds_validas # <<>> THEN Margem(odds_validas)
                            ELSE <<0, 1>>,
         recomendacao   |-> Recomendacao(value_bets)]

(***************************************************************************)
(* bet_brasil.py: _processar_jogos_brasileiros, one match                  *)
(***************************************************************************)
\* for casa in jogo.get('bookmakers', []): ... casas_apostas.append(casa_info)
ProcessarCasa ==
    /\ pc_jogo = "casas"
    /\ Len(casas_apostas) < MaxCasas
    /\ \E casa \in BookmakersPossiveis :
          /\ \A i \in DOMAIN casas_apostas : casas_apostas[i].nome # casa.title
          /\ casas_apostas' = Append(casas_apostas, CasaInfo(casa))
    /\ UNCHANGED <<melhores_odds, analise_valor, pc_jogo, vars_monitor, vars_brasil>>

\* info_jogo['melhores_odds'] = self._calcular_melhores_odds(...)
CalcularMelhoresOdds ==
    /\ pc_jogo = "casas"
    /\ melhores_odds' = _calcular_melhores_odds(casas_apostas)
    /\ pc_jogo' = "melhores"
    /\ UNCHANGED <<casas_apostas, analise_valor, vars_monitor, vars_brasil>>

\* info_jogo['analise_valor'] = self._analisar_valor_odds(...); an
\* exception leaves the match unprocessed.
AnalisarValorOdds ==
    /\ pc_jogo = "melhores"
    /\ IF LevantaZeroDivisionError(melhores_odds)
       THEN /\ pc_jogo' = "erro"
            /\ UNCHANGED analise_valor
       ELSE /\ analise_valor' = _analisar_valor_odds(melhores_odds)
            /\ pc_jogo' = "analisado"
    /\ UNCHANGED <<casas_apostas, melhores_odds, vars_monitor, vars_brasil>>

NextJogo == ProcessarCasa \/ CalcularMelhoresOdds \/ AnalisarValorOdds

(***************************************************************************)
(* code_no_api.py: BetMonitor                                              *)
(*                                                                         *)
(* A snapshot is the dict parse_odds returns: home, draw and away hold a   *)
(* price or None, timestamp holds the time of the poll (the number of the  *)
(* polling cycle).  Prices are thousandths (2.004 is 2004) and positive.   *)
(***************************************************************************)
MaxIteracoes == 3

PrecosSnapshot ==
    [home : {None, Some(2000), Some(2004)},
     draw : {None, Some(3000)},
     away : {Some(3400), Some(3500)}]

Markets == <<"home", "draw", "away">>

\* As Trend, with the arrows of a rise and of a fall swapped.
TrendInvertida(change) ==
    IF change > 0 THEN "down" ELSE IF change < 0 THEN "up" ELSE "flat"

\* "up arrow" if change > 0 else "down arrow" if change < 0 else "right arrow"
Trend(change) ==
    IF change > 0 THEN "up" ELSE IF change < 0 THEN "down" ELSE "flat"

\* f"{abs(change):.2f}": the magnitude in hundredths, rounded to the
\* nearest (a tie goes to the even neighbour).
Format2f(change) ==
    LET q == Abs(change) \div 10
        r == Abs(change) % 10
    IN  IF r > 5 THEN q + 1
        ELSE IF r < 5 THEN q
        ELSE IF q % 2 = 0 THEN q ELSE q + 1

\* the lines printed by "for market in ['home', 'draw', 'away']"
RECURSIVE TrendLines(_, _, _)
TrendLines(current, previous, markets) ==
    IF markets = <<>> THEN <<>>
    ELSE LET market == Head(markets)
             resto == TrendLines(current, previous, Tail(markets))
         IN  IF Truthy(current[market]) /\ Truthy(previous[market])
             THEN LET change == Val(current[market]) - Val(previous[market])
                  IN  <<<<market, Val(current[market]), Trend(change),
                          Format2f(change)>>>> \o resto
             ELSE resto

\* self.odds_history[-2], and the first snapshot taken in its place
Primeiro(history) == history[1]

Previous(history) == history[Len(history) - 1]

\* len(self.odds_history) < 2
MenosDeDois(history) == Len(history) < 2

\* What analyze_trend prints: nothing, or the header and the market lines.
analyze_trend(history) ==
    IF MenosDeDois(history) THEN <<>>
    ELSE <<<<"--- Analise de Tendencia ---">>>>
             \o TrendLines(history[Len(history)], Previous(history), Markets)

\* What display_current_odds prints.
display_current_odds(odds) ==
    <<<<"Casa", odds.home>>, <<"Empate", odds.draw>>, <<"Fora", odds.away>>>>

\* if max_iterations and iteration >= max_iterations: break
SaiDoLaco == Truthy(max_iterations) /\ iteration >= Val(max_iterations)

\* A cycle whose get_page_content returns None.
PollFalha ==
    /\ pc_monitor = "loop"
    /\ ~SaiDoLaco
    /\ iteration < MaxIteracoes
    /\ iteration' = iteration + 1
    /\ exibido' = <<>>
    /\ tendencia' = <<>>
    /\ polls' = Append(polls, <<"html", None>>)
    /\ UNCHANGED <<odds_history, max_iterations, pc_monitor, vars_jogo, vars_brasil>>

\* A cycle whose parse_odds returns None.
ParseFalha ==
    /\ pc_monitor = "loop"
    /\ ~SaiDoLaco
    /\ iteration < MaxIteracoes
    /\ iteration' = iteration + 1
    /\ exibido' = <<>>
    /\ tendencia' = <<>>
    /\ polls' = Append(polls, <<"odds", None>>)
    /\ UNCHANGED <<odds_history, max_iterations, pc_monitor, vars_jogo, vars_brasil>>

\* A cycle whose parse_odds returns a snapshot: append, display, analyse.
PollSucesso ==
    /\ pc_monitor = "loop"
    /\ ~SaiDoLaco
    /\ iteration < MaxIteracoes
    /\ \E precos \in PrecosSnapshot :
          LET odds == [home |-> precos.home, draw |-> precos.draw,
                       away |-> precos.away, timestamp |-> iteration + 1]
          IN  /\ odds_history' = Append(odds_history, odds)
              /\ exibido' = display_current_odds(odds)
              /\ tendencia' = analyze_trend(odds_history')
              /\ polls' = Append(polls, <<"odds", Some(odds)>>)
    /\ iteration' = iteration + 1
    /\ UNCHANGED <<max_iterations, pc_monitor, vars_jogo, vars_brasil>>

\* break
Terminar ==
    /\ pc_monitor = "loop"
    /\ SaiDoLaco
    /\ pc_monitor' = "done"
    /\ UNCHANGED <<odds_history, iteration, max_iterations, exibido, tendencia,
                   polls, vars_jogo, vars_brasil>>

NextMonitor == PollFalha \/ ParseFalha \/ PollSucesso \/ Terminar

MonitorParado ==
    /\ odds_history = <<>>
    /\ iteration = 0
    /\ max_iterations = None
    /\ pc_monitor = "parado"
    /\ exibido = <<>>
    /\ tendencia = <<>>
    /\ polls = <<>>

JogoParado ==
    /\ casas_apostas = <<>>
    /\ melhores_odds = EmptyDict
    /\ analise_valor = EmptyDict
    /\ pc_jogo = "parado"

(***************************************************************************)
(* bet_brasil.py: monitorar_campeonato_brasileiro                          *)
(*                                                                         *)
(* A cycle calls obter_jogos_ao_vivo, which returns None (a status other   *)
(* than 200, or any exception of the request or of the processing) or the  *)
(* list of processed matches of the feed.                                  *)
(***************************************************************************)
Jogo(casa, fora, bookmakers) ==
    [home_team |-> casa, away_team |-> fora, bookmakers |-> bookmakers]

JogoComOdds ==
    Jogo("Flamengo", "Palmeiras",
         <<Bookmaker("BookA", <<H2H(Some(20), Some(30), Some(30)),
                                Totals(Some(18), Some(10))>>),
           Bookmaker("draw", <<H2H(Some(20), Some(20), Some(5))>>)>>)

JogoSemCasas == Jogo("Santos", "Gremio", <<>>)

\* What the feed can answer with status 200.
FeedsPossiveis ==
    {<<>>, <<JogoComOdds>>, <<JogoSemCasas>>, <<JogoComOdds, JogoSemCasas>>}

\* info_jogo of one match, collected in cycle number coleta
InfoJogo(jogo, coleta) ==
    LET casas == [i \in 1..Len(jogo.bookmakers) |-> CasaInfo(jogo.bookmakers[i])]
        melhores == _calcular_melhores_odds(casas)
    IN  [time_casa        |-> jogo.home_team,
         time_fora        |-> jogo.away_team,
         timestamp_coleta |-> coleta,
         casas_apostas    |-> casas,
         melhores_odds    |-> melhores,
         analise_valor    |-> _analisar_valor_odds(melhores)]

\* _processar_jogos_brasileiros under the try of obter_jogos_ao_vivo: the
\* processed matches, or None when the processing of a match raises.
_processar_jogos_brasileiros(dados, coleta) ==
    IF \E i \in 1..Len(dados) :
          LevantaZeroDivisionError(
              _calcular_melhores_odds(
                  [k \in 1..Len(dados[i].bookmakers) |->
                      CasaInfo(dados[i].bookmakers[k])]))
    THEN None
    ELSE Some([i \in 1..Len(dados) |-> InfoJogo(dados[i], coleta)])

\* f"{x:.2f}" of a fraction: hundredths, rounded to the nearest (a tie goes
\* to the even neighbour).
Format2fFrac(x) ==
    LET n == 100 * Abs(x[1])
        q == n \div x[2]
        r == n % x[2]
        m == IF 2 * r > x[2] THEN q + 1
             ELSE IF 2 * r < x[2] THEN q
             ELSE IF q % 2 = 0 THEN q ELSE q + 1
    IN  IF x[1] < 0 THEN -m ELSE m

CamposExibidos == <<"casa", "empate", "fora", "over_25", "under_25">>

\* the best-odds lines of one match: only the outcomes with odd > 0
LinhasMelhores(melhores) ==
    LET todas == [i \in 1..Len(CamposExibidos) |->
                     <<CamposExibidos[i], melhores[CamposExibidos[i]].odd,
                       melhores[CamposExibidos[i]].casa_aposta>>]
    IN  SelectSeq(todas, LAMBDA l : l[2] > 0)

\* What exibir_jogos_brasileiros prints: per match the teams, the number of
\* bookmakers, the best odds, the margin, the recommendation and at most
\* two value bets.
exibir_jogos_brasileiros(jogos) ==
    [i \in 1..Len(jogos) |->
        <<jogos[i].time_casa, jogos[i].time_fora, Len(jogos[i].casas_apostas),
          LinhasMelhores(jogos[i].melhores_odds),
          Format2fFrac(jogos[i].analise_valor.margem_mercado),
          jogos[i].analise_valor.recomendacao,
          SubSeq(jogos[i].analise_valor.value_bets, 1,
                 IF Len(jogos[i].analise_valor.value_bets) < 2
                 THEN Len(jogos[i].analise_valor.value_bets) ELSE 2)>>]

\* the number of rows of the table salvar_dados_brasileiros builds: one per
\* bookmaker of every match of the history
RECURSIVE Linhas(_)
Linhas(history) ==
    IF history = <<>> THEN 0
    ELSE Len(Head(history).casas_apostas) + Linhas(Tail(history))

\* salvar_dados_brasileiros: nothing is written for an empty history
Salvar(history, anterior) == IF history = <<>> THEN anterior ELSE Some(Linhas(history))

\* As TemJogos, without the test.
TemJogosSempre(jogos) == TRUE

\* if jogos: neither None nor an empty list
TemJogos(jogos) == jogos # None /\ Val(jogos) # <<>>

\* if not self.testar_api(): return
TestarApi ==
    /\ pc_brasil = "testar"
    /\ \E ok \in BOOLEAN : pc_brasil' = IF ok THEN "loop" ELSE "abortado"
    /\ UNCHANGED <<odds_history_brasil, iteracao, iteracoes, exibido_brasil, arquivo,
                   polls_brasil, vars_jogo, vars_monitor>>

\* The body of "for iteracao in range(iteracoes)" with jogos the value
\* obter_jogos_ao_vivo returned.  Iterating over None raises TypeError,
\* which nothing in the monitor catches.
Ciclo(jogos) ==
    /\ iteracao < iteracoes
    /\ polls_brasil' = Append(polls_brasil, jogos)
    /\ iteracao' = iteracao + 1
    /\ IF TemJogos(jogos)
       THEN IF jogos = None
            THEN /\ pc_brasil' = "erro"
                 /\ UNCHANGED <<odds_history_brasil, exibido_brasil, arquivo>>
            ELSE /\ exibido_brasil' = exibir_jogos_brasileiros(Val(jogos))
                 /\ odds_history_brasil' = odds_history_brasil \o Val(jogos)
                 /\ arquivo' = IF iteracao % 2 = 0
                               THEN Salvar(odds_history_brasil', arquivo)
                               ELSE arquivo
                 /\ UNCHANGED pc_brasil
       ELSE /\ exibido_brasil' = <<>>
            /\ UNCHANGED <<odds_history_brasil, arquivo, pc_brasil>>
    /\ UNCHANGED <<iteracoes, vars_jogo, vars_monitor>>

\* A cycle whose request is answered with a status other than 200, or whose
\* request raises: obter_jogos_ao_vivo returns None.
CicloFalha ==
    /\ pc_brasil = "loop"
    /\ Ciclo(None)

\* A cycle whose request is answered with status 200 and a feed.
CicloJogos ==
    /\ pc_brasil = "loop"
    /\ \E dados \in FeedsPossiveis :
          Ciclo(_processar_jogos_brasileiros(dados, iteracao + 1))

\* The loop is over: the history is saved a last time.
Concluir ==
    /\ pc_brasil = "loop"
    /\ iteracao >= iteracoes
    /\ pc_brasil' = "done"
    /\ arquivo' = Salvar(odds_history_brasil, arquivo)
    /\ UNCHANGED <<odds_history_brasil, iteracao, iteracoes, exibido_brasil,
                   polls_brasil, vars_jogo, vars_monitor>>

NextBrasil == TestarApi \/ CicloFalha \/ CicloJogos \/ Concluir

BrasilParado ==
    /\ odds_history_brasil = <<>>
    /\ iteracao = 0
    /\ iteracoes = 0
    /\ pc_brasil = "parado"
    /\ exibido_brasil = <<>>
    /\ arquivo = None
    /\ polls_brasil = <<>>

Init ==
    /\ casas_apostas = <<>>
    /\ melhores_odds = EmptyDict
    /\ analise_valor = EmptyDict
    /\ pc_jogo = "casas"
    /\ BrasilParado
    /\ MonitorParado

InitMonitor ==
    /\ JogoParado
    /\ BrasilParado
    /\ odds_history = <<>>
    /\ iteration = 0
    /\ max_iterations \in {None} \cup {Some(n) : n \in 0..MaxIteracoes}
    /\ pc_monitor = "loop"
    /\ exibido = <<>>
    /\ tendencia = <<>>
    /\ polls = <<>>

\* Either monitor started: BetMonitor.monitor_odds, or
\* BrasilOddsMonitor.monitorar_campeonato_brasileiro.
InitLoops ==
    /\ JogoParado
    /\ \/ /\ BrasilParado
          /\ odds_history = <<>>
          /\ iteration = 0
          /\ max_iterations \in {None} \cup {Some(n) : n \in 0..MaxIteracoes}
          /\ pc_monitor = "loop"
          /\ exibido = <<>>
          /\ tendencia = <<>>
          /\ polls = <<>>
       \/ /\ MonitorParado
          /\ odds_history_brasil = <<>>
          /\ iteracao = 0
          /\ iteracoes \in 0..MaxIteracoes
          /\ pc_brasil = "testar"
          /\ exibido_brasil = <<>>
          /\ arquivo = None
          /\ polls_brasil = <<>>

NextLoops == NextMonitor \/ NextBrasil

\* One match processed by _processar_jogos_brasileiros.
Spec == Init /\ [][NextJogo]_vars

\* One run of BetMonitor.monitor_odds.
SpecMonitor == InitMonitor /\ [][NextMonitor]_vars

\* One run of either monitoring loop.
SpecLoops == InitLoops /\ [][NextLoops]_vars

(***************************************************************************)
(* Properties of the aggregation (bet_brasil.py)                           *)
(***************************************************************************)
Campos == {"casa", "empate", "fora", "over_25", "under_25"}

\* Where a bookmaker's quote for an outcome of the result sits in casa_info.
MercadoDoCampo(campo) ==
    IF campo \in {"over_25", "under_25"} THEN "over_under" ELSE "resultado"

ChaveDoCampo(campo) ==
    CASE campo = "casa"     -> "home"
      [] campo = "empate"   -> "draw"
      [] campo = "fora"     -> "away"
      [] campo = "over_25"  -> "Over 2.5"
      [] campo = "under_25" -> "Under 2.5"

\* The price bookmaker number i quotes for the outcome, or None.
Cotacao(i, campo) ==
    Get(MercadoDe(casas_apostas[i], MercadoDoCampo(campo)), ChaveDoCampo(campo))

Cotantes(campo) == {i \in DOMAIN casas_apostas : Cotacao(i, campo) # None}

Cotacoes(campo) == {Val(Cotacao(i, campo)) : i \in Cotantes(campo)}

Max(S) == CHOOSE x \in S : \A y \in S : x >= y

Min(S) == CHOOSE x \in S : \A y \in S : x <= y

Agregado == pc_jogo \in {"melhores", "analisado", "erro"}

\* C1: for every outcome that at least one bookmaker quotes, the best price
\* of the aggregation is the maximum of the quoted prices, for home as for
\* the other four outcomes and whatever the bookmakers are called.
C1_BestIsMaximum ==
    Agregado =>
        \A campo \in Campos :
            Cotacoes(campo) # {} =>
                melhores_odds[campo].odd = Max(Cotacoes(campo))

C3_SubUnitRejected ==
    Agregado =>
        \A campo \in Campos :
            LET validas == {p \in Cotacoes(campo) : p > 10}
            IN  /\ melhores_odds[campo].odd \notin (Cotacoes(campo) \ validas)
                /\ (campo # "casa" /\ validas # {}) =>
                       melhores_odds[campo].odd = Max(validas)

\* C8: when two or more bookmakers quote the same maximal price for an
\* outcome, the winner is the first of them in input order.
C8_FirstOfTiedWins ==
    Agregado =>
        \A campo \in Campos :
            LET empatados == {i \in Cotantes(campo) :
                                 Val(Cotacao(i, campo)) = Max(Cotacoes(campo))}
            IN  Cardinality(empatados) >= 2 =>
                    melhores_odds[campo].casa_aposta =
                        casas_apostas[Min(empatados)].nome

(***************************************************************************)
(* Properties of the value analysis (bet_brasil.py)                        *)
(***************************************************************************)
Resultados == {"casa", "empate", "fora"}

Precificados == {m \in Resultados : melhores_odds[m].odd > 0}

\* S = sum of 1/price over the priced outcomes, prices in tenths.
RECURSIVE SomaInversos(_)
SomaInversos(ms) ==
    IF ms = {} THEN <<0, 1>>
    ELSE LET m == CHOOSE x \in ms : TRUE
         IN  RAdd(Frac(10, melhores_odds[m].odd), SomaInversos(ms \ {m}))

\* (1/price) / S
ProbNormalizada(m) == RDiv(Frac(10, melhores_odds[m].odd), SomaInversos(Precificados))

Analisado == pc_jogo = "analisado"

C5_ProbabilitiesSumToOne ==
    (Analisado /\ Precificados = Resultados) =>
        LET odds_validas == OddsValidas(melhores_odds, Mercados)
            probs == [i \in 1..3 |->
                         ProbAjustada(melhores_odds[Mercados[i]].odd, odds_validas)]
        IN  /\ RSum(probs) = <<1, 1>>
            /\ \A i \in 1..3 : RGe(probs[i], <<0, 1>>) /\ RGe(<<1, 1>>, probs[i])

\* An analysis of three priced outcomes with a non-zero margin.
C5_Witness ==
    /\ Analisado
    /\ Precificados = Resultados
    /\ analise_valor.margem_mercado # <<0, 1>>

ApostasDe(m) ==
    {i \in DOMAIN analise_valor.value_bets :
        analise_valor.value_bets[i].mercado = NomeMercado(m)}

PosicaoDe(entrada) ==
    CHOOSE i \in 1..3 : NomeMercado(Mercados[i]) = entrada.mercado

\* C7: value_bets is ordered by normalized probability descending, equal
\* probabilities in the order home, draw, away.
C7_ValueBetsOrdered ==
    Analisado =>
        \A i, j \in DOMAIN analise_valor.value_bets :
            i < j =>
                LET a == PosicaoDe(analise_valor.value_bets[i])
                    b == PosicaoDe(analise_valor.value_bets[j])
                    pa == ProbNormalizada(Mercados[a])
                    pb == ProbNormalizada(Mercados[b])
                IN  RGt(pa, pb) \/ (pa = pb /\ a < b)

\* An analysis that returns a value bet.
C7_Witness ==
    /\ Analisado
    /\ analise_valor.value_bets # <<>>
    /\ Cardinality(Precificados) >= 2

(***************************************************************************)
(* Properties of the trend analysis (code_no_api.py)                       *)
(***************************************************************************)
UltimoPoll == polls[Len(polls)]

\* The last cycle appended a snapshot.
UltimoPollSucesso == polls # <<>> /\ UltimoPoll[2] # None

\* The market lines analyze_trend printed, without the header.
LinhasDe(saida) == {saida[i] : i \in 2..Len(saida)}

Sucessos(k) == {i \in 1..k : polls[i][2] # None}

\* The lines a comparison of two snapshots consists of.
Comparacao(cur, prev) ==
    {<<m, Val(cur[m]),
       CASE Val(cur[m]) > Val(prev[m]) -> "up"
         [] Val(cur[m]) < Val(prev[m]) -> "down"
         [] OTHER -> "flat",
       Format2f(Val(cur[m]) - Val(prev[m]))>> :
        m \in {x \in {"home", "draw", "away"} : cur[x] # None /\ prev[x] # None}}

\* C10: with fewer than two snapshots in the history the trend analysis
\* prints nothing; from the second snapshot on, the analysis of a cycle
\* compares the snapshot of that cycle (history[-1]) with the snapshot of
\* the most recent earlier successful cycle (history[-2]), whatever failed
\* cycles lie between the two.
C10_ComparesLastTwoSuccesses ==
    /\ Len(odds_history) < 2 => tendencia = <<>>
    /\ (UltimoPollSucesso /\ Cardinality(Sucessos(Len(polls))) >= 2) =>
           LET cur == Val(UltimoPoll[2])
               prev == Val(polls[Max(Sucessos(Len(polls) - 1))][2])
           IN  /\ odds_history[Len(odds_history)] = cur
               /\ odds_history[Len(odds_history) - 1] = prev
               /\ tendencia # <<>>
               /\ LinhasDe(tendencia) = Comparacao(cur, prev)

\* Two successful cycles with a failed one between them, then analysed.
C10_Witness ==
    /\ Len(polls) = 3
    /\ polls[1][2] # None
    /\ polls[2][2] = None
    /\ polls[3][2] # None
    /\ tendencia # <<>>
    /\ LinhasDe(tendencia) = Comparacao(Val(polls[3][2]), Val(polls[1][2]))

(***************************************************************************)
(* Properties of the monitoring loops (both files)                         *)
(***************************************************************************)
\* The step is a cycle of monitor_odds whose fetch or parse returned None.
CicloFalhoMonitor ==
    /\ Len(polls') = Len(polls) + 1
    /\ polls'[Len(polls')][2] = None

\* The step is a cycle of monitorar_campeonato_brasileiro in which
\* obter_jogos_ao_vivo returned None.
CicloFalhoBrasil ==
    /\ Len(polls_brasil') = Len(polls_brasil) + 1
    /\ polls_brasil'[Len(polls_brasil')] = None

\* C11: in both monitoring loops a cycle whose fetch or parse returns
\* nothing does not end the monitor: the history is as it was before the
\* cycle, nothing of the cycle is displayed or analysed (and nothing is
\* saved), and the loop is still running, one cycle further.
C11_FailedCycleSkipped ==
    [][/\ CicloFalhoMonitor =>
            /\ odds_history' = odds_history
            /\ exibido' = <<>>
            /\ tendencia' = <<>>
            /\ pc_monitor' = "loop"
            /\ iteration' = iteration + 1
       /\ CicloFalhoBrasil =>
            /\ odds_history_brasil' = odds_history_brasil
            /\ exibido_brasil' = <<>>
            /\ arquivo' = arquivo
            /\ pc_brasil' = "loop"
            /\ iteracao' = iteracao + 1]_vars

\* A run of monitorar_campeonato_brasileiro whose first cycle failed and
\* whose second cycle, after it, collected matches.
C11_Witness ==
    /\ Len(polls_brasil) >= 2
    /\ polls_brasil[1] = None
    /\ TemJogos(polls_brasil[2])
    /\ odds_history_brasil # <<>>
    /\ pc_brasil = "loop"

\* C12 as stated, its finite part: a loop started with the limit N never
\* performs more than N polling cycles, and has performed exactly N when it
\* is done.
C12_ExactlyNPolls ==
    /\ (pc_monitor # "parado" /\ max_iterations # None) =>
          /\ Len(polls) <= Val(max_iterations)
          /\ pc_monitor = "done" => Len(polls) = Val(max_iterations)
    /\ pc_brasil # "parado" =>
          /\ Len(polls_brasil) <= iteracoes
          /\ pc_brasil = "done" => Len(polls_brasil) = iteracoes

(***************************************************************************)
(* The number of value bets (bet_brasil.py)                                *)
(***************************************************************************)
\* C13: the value analysis returns at most one value bet, since at most one
\* priced result outcome has a normalized probability above 0.6; when
\* exactly one result outcome is priced its normalized probability is 1 and
\* it is the value bet returned.
C13_AtMostOneValueBet ==
    Analisado =>
        /\ Len(analise_valor.value_bets) <= 1
        /\ Cardinality({m \in Precificados :
                           RGt(ProbNormalizada(m), <<6, 10>>)}) <= 1
        /\ Cardinality(Precificados) = 1 =>
              \E m \in Precificados :
                  /\ ProbNormalizada(m) = <<1, 1>>
                  /\ Len(analise_valor.value_bets) = 1
                  /\ analise_valor.value_bets[1].mercado = NomeMercado(m)
                  /\ analise_valor.value_bets[1].odd = melhores_odds[m].odd

\* An analysis of a match with exactly one priced result outcome, returned
\* as the value bet.
C13_Witness ==
    /\ Analisado
    /\ Cardinality(Precificados) = 1
    /\ Len(analise_valor.value_bets) = 1

====
